---- MODULE Spec2Model ----
(***************************************************************************)
(* Cluemore desktop client (Frontend/main.js): the window-level            *)
(* coordinator (PermissionDialogManager), the permission-completion        *)
(* detector and the streaming ingestion loops, as state machines.          *)
(*                                                                         *)
(* Scheduling is the single-threaded event loop of the Electron main       *)
(* process: one action of this module is one run-to-completion turn, from  *)
(* the resumption of a continuation (a timer, a settled operation, an IPC  *)
(* call) to its next suspension on a timer or an operation.                *)
(***************************************************************************)
EXTENDS Integers, Sequences, FiniteSets, TLC

(* ---------------------------------------------------------------------- *)
(* Universe                                                                *)
(* ---------------------------------------------------------------------- *)

\* Keys of originalWindowStates: win, authWin, promptEditorWin.
WindowKeys == {"main", "auth", "editor"}

\* Concurrent callers of handleSystemDialog (IPC handlers, startup flow).
Callers == {"c1", "c2"}

\* systemPreferences.getMediaAccessStatus('screen')
Statuses == {"not-determined", "denied", "granted"}

\* dialogType arguments used by the call sites.
DialogTypes == {"keychain-store", "screen-recording"}

\* process.platform
Platforms == {"darwin", "win32"}

\* maxWaitMs of waitForPermissionDialogCompletion, in units of pollInterval
\* (30000 / 500 in the source, scaled down).
MaxWait == 3

\* A timer never fires early but may fire late: one poll wait lasts between
\* 1 and MaxLate units of pollInterval.
MaxLate == 2

VARIABLES
    wins,                  \* win / authWin / promptEditorWin: the live window of each key
    isPinnedOnTop,         \* process-wide pinned preference
    mediaStatus,           \* the capability status the OS reports
    platform,              \* process.platform
    isDialogActive,        \* PermissionDialogManager.isDialogActive
    originalWindowStates,  \* PermissionDialogManager.originalWindowStates
    restoreTimeout,        \* PermissionDialogManager.restoreTimeout: "null" or "set"
    timerPending,          \* the timer behind restoreTimeout has not fired nor been cleared
    timerRestoring,        \* the safety timer's callback is inside restoreAllWindowsAfterDialog(100)
    pc,                    \* per caller: where its handleSystemDialog call is suspended
    call,                  \* per caller: the locals of its handleSystemDialog call
    registry,              \* the window keys this run of the application uses
    sessions,              \* history: callers whose lower opened a session not yet ended
    lastOp,                \* history: the turn that produced this state
    sKind,                 \* "chat" (sendChatMessage) or "screenshot" (processAccumulatedScreenshots)
    sPc,                   \* where the streaming request stands
    body,                  \* the part of the response body not yet delivered by reader.read()
    fullBody,              \* history: the whole response body
    uiEvents,              \* what win.webContents.send has sent for this request, in order
    readerLocked,          \* response.body.getReader() is held and not yet released
    wholeReads,            \* history: every read so far ended at the end of a line
    sEnd,                  \* history: how the request function ended
    currentVersion,        \* app.getVersion()
    uPhase,                \* where electron-updater stands: "idle", "checking", "downloading", "downloaded"
    offered,               \* history: info.version of the last update-available, or NoVersion
    notes,                 \* what was sent on update-notification / update-progress, in order
    restartPending,        \* the 2000 ms timer of the update-downloaded handler is set
    restarted,             \* autoUpdater.quitAndInstall has been called
    skipped,               \* history: the last update-available was found to be the running version
    failed,                \* history: an updater error was handled since the last check started
    reqPc,                 \* per sendChatMessage invocation in flight: where it stands
    reqBody,               \* per invocation: the part of its response body not yet delivered
    channelLog,            \* what was sent to the window by these invocations, in order;
                           \* `req` is history, the events themselves carry no request identity
    tsPc,                  \* where the takeScreenshot call stands
    tsForChat,             \* its forChat argument
    tsReread,              \* history: newScreenAccess, the status read after the permission request
    tsEvents               \* what takeScreenshot has sent to the window, in order

dialogVars == <<wins, isPinnedOnTop, mediaStatus, platform, isDialogActive,
                originalWindowStates, restoreTimeout, timerPending, timerRestoring,
                pc, call, registry, sessions, lastOp>>

streamVars == <<sKind, sPc, body, fullBody, uiEvents, readerLocked, wholeReads, sEnd>>

updateVars == <<currentVersion, uPhase, offered, notes, restartPending, restarted,
                skipped, failed>>

duoVars == <<reqPc, reqBody, channelLog>>

shotVars == <<tsPc, tsForChat, tsReread, tsEvents>>

vars == <<dialogVars, streamVars, updateVars, duoVars, shotVars>>

(* ---------------------------------------------------------------------- *)
(* Windows                                                                 *)
(* ---------------------------------------------------------------------- *)

NoWindow == [exists |-> FALSE, onTop |-> FALSE, visible |-> FALSE]

EmptySnapshot == [k \in {} |-> NoWindow]

SaveWindowStatesMutant(w) ==
    [k \in WindowKeys |->
        [isAlwaysOnTop |-> w[k].onTop, isVisible |-> w[k].visible, destroyed |-> ~w[k].exists]]

\* saveWindowStates: one entry per key whose window variable is set and not
\* destroyed.  state.window is the window object itself: `destroyed` is what
\* state.window.isDestroyed() answers, FALSE when the entry is made.
SaveWindowStates(w) ==
    [k \in {x \in WindowKeys : w[x].exists} |->
        [isAlwaysOnTop |-> w[k].onTop, isVisible |-> w[k].visible, destroyed |-> FALSE]]

IsDestroyedMutant(state) == FALSE

\* state.window.isDestroyed(), asked of each entry right before its
\* setAlwaysOnTop in the loops of lower and restore.
IsDestroyed(state) == state.destroyed

\* The loop of lowerAllWindowsForDialog: setAlwaysOnTop(false) on every
\* snapshot window that is not destroyed.
LowerWindows(w, snap) ==
    [k \in WindowKeys |->
        IF k \in DOMAIN snap /\ ~IsDestroyed(snap[k])
        THEN [w[k] EXCEPT !.onTop = FALSE]
        ELSE w[k]]

RestoreLevelMutant(pinned, state) == state.isAlwaysOnTop

\* The level restoreAllWindowsAfterDialog gives a window: elevated
\* ('screen-saver') iff isPinnedOnTop && state.isVisible.
RestoreLevel(pinned, state) == pinned /\ state.isVisible

RestoreWindowsMutant(w, snap, pinned) ==
    [k \in WindowKeys |->
        IF k = "main" /\ k \in DOMAIN snap /\ ~IsDestroyed(snap[k])
        THEN [w[k] EXCEPT !.onTop = RestoreLevel(pinned, snap[k])]
        ELSE w[k]]

\* The loop of restoreAllWindowsAfterDialog.
RestoreWindows(w, snap, pinned) ==
    [k \in WindowKeys |->
        IF k \in DOMAIN snap /\ ~IsDestroyed(snap[k])
        THEN [w[k] EXCEPT !.onTop = RestoreLevel(pinned, snap[k])]
        ELSE w[k]]

LevelIsSetMutant(k, thrown) == thrown = {}

\* The try/catch around each window of the restore loop: a setAlwaysOnTop that
\* throws leaves that window as it is and the loop goes on to the next entry.
LevelIsSet(k, thrown) == k \notin thrown

\* The loop of restoreAllWindowsAfterDialog when setAlwaysOnTop throws for
\* the windows of `thrown`.
RestoreWindowsThrowing(w, snap, pinned, thrown) ==
    [k \in WindowKeys |->
        IF k \in DOMAIN snap /\ ~IsDestroyed(snap[k]) /\ LevelIsSet(k, thrown)
        THEN [w[k] EXCEPT !.onTop = RestoreLevel(pinned, snap[k])]
        ELSE w[k]]

(* ---------------------------------------------------------------------- *)
(* handleSystemDialog: locals of one call                                  *)
(* ---------------------------------------------------------------------- *)

\* operationResult / operationError / outcome: 0 is null, n > 0 is the value
\* produced by the n-th invocation of operation().
IdleCall ==
    [dialogType     |-> "none",
     path           |-> "none",     \* "plain" | "granted" | "perm"
     opened         |-> FALSE,      \* history: this call's lower was not a no-op
     invocations    |-> 0,          \* history: how often operation() was invoked
     settled        |-> <<>>,       \* history: per settled invocation, whether it resolved
     operationResult |-> 0,
     operationError |-> 0,
     initialStatus  |-> "none",
     elapsed        |-> 0,          \* Date.now() - startTime, in pollInterval units
     polls          |-> 0,          \* history: reads of the status by the detector
     sawChange      |-> FALSE,      \* history: a poll read a status other than the baseline
     dialogHandled  |-> "none",     \* "none" | "true" | "false"
     cont           |-> "none",     \* what follows the pending restore
     restores       |-> 0,          \* history: restore loops this call ran
     size           |-> -1,         \* history: originalWindowStates.size read at line 514
     thrown         |-> {},         \* history: keys whose setAlwaysOnTop threw in the restore loop
     stale          |-> FALSE,      \* history: a session was opened while this call's restore was waiting
     outcome        |-> <<"none", 0>>]

\* dialogType.includes('screen-recording') && process.platform === 'darwin'
IsPermissionRequest(dialogType, plat) ==
    dialogType = "screen-recording" /\ plat = "darwin"

StatusChangedMutant(currentStatus, initialStatus) ==
    currentStatus = "granted" /\ initialStatus # "granted"

\* currentStatus !== initialStatus
StatusChanged(currentStatus, initialStatus) == currentStatus # initialStatus

\* Date.now() - startTime < maxWaitMs
WithinWait(elapsed) == elapsed < MaxWait

Min(a, b) == IF a < b THEN a ELSE b

\* lastOp: the coordinator method the last turn entered and whether a session
\* was active when it did; OtherOp after a turn that entered none.
\* `snap` is the snapshot the method found, for the methods that restore.
Op(name, active, snap) == [name |-> name, active |-> active, snap |-> snap]

OtherOp == Op("-", FALSE, EmptySnapshot)


(* ---------------------------------------------------------------------- *)
(* PermissionDialogManager                                                 *)
(* ---------------------------------------------------------------------- *)

LowerIsNoopMutant(active) == FALSE

\* The guard of lowerAllWindowsForDialog: `if (this.isDialogActive) return`.
LowerIsNoop(active) == active

RestoreIsNoopMutant(active) == FALSE

\* The guard of restoreAllWindowsAfterDialog: `if (!this.isDialogActive) return`.
RestoreIsNoop(active) == ~active

AlreadyGrantedMutant(status) == FALSE

\* `if (initialStatus === 'granted')`
AlreadyGranted(status) == status = "granted"

\* What follows lowerAllWindowsForDialog in handleSystemDialog: the dispatch on
\* the dialog type, the read of the baseline status and the first invocation
\* of operation().
StartGuarded(c) ==
    IF IsPermissionRequest(c.dialogType, platform)
    THEN [c EXCEPT !.path = IF AlreadyGranted(mediaStatus) THEN "granted" ELSE "perm",
                   !.initialStatus = mediaStatus,
                   !.invocations = 1]
    ELSE [c EXCEPT !.path = "plain", !.invocations = 1]

\* The end of handleScreenRecordingPermission: `if (operationError) throw
\* operationError; return operationResult`.  The throw lands in the catch of
\* handleSystemDialog, whose restoreAllWindowsAfterDialog() finds the flag
\* false (it was cleared, or found false, earlier in this same turn) and
\* returns at once; the error is then rethrown.
FinishPerm(c) ==
    IF c.operationError # 0
    THEN [c EXCEPT !.outcome = <<"error", c.operationError>>]
    ELSE [c EXCEPT !.outcome = <<"result", c.operationResult>>]

SettledMutant(c, cont) ==
    IF cont = "permFinish" THEN FinishPerm(c)
    ELSE [c EXCEPT !.outcome = <<"result", c.operationResult>>]

\* The call settles: what handleSystemDialog does once the restore it awaited
\* has returned.
Settled(c, cont) ==
    CASE cont = "return" -> [c EXCEPT !.outcome = <<"result", c.operationResult>>]
      [] cont = "throw"  -> [c EXCEPT !.outcome = <<"error", c.operationError>>]
      [] OTHER           -> FinishPerm(c)

\* restoreAllWindowsAfterDialog up to its wait: a no-op when no session is
\* active, else the safety timer is cleared and the caller sleeps.
BeginRestore(p, c, cont) ==
    IF RestoreIsNoop(isDialogActive)
    THEN /\ pc' = [pc EXCEPT ![p] = "done"]
         /\ call' = [call EXCEPT ![p] = Settled(c, cont)]
         /\ UNCHANGED <<restoreTimeout, timerPending>>
    ELSE /\ pc' = [pc EXCEPT ![p] = "restoreWait"]
         /\ call' = [call EXCEPT ![p] = [c EXCEPT !.cont = cont]]
         /\ restoreTimeout' = "null"
         /\ timerPending' = FALSE

HasWindowsToRestoreMutant(size) == TRUE

\* `if (this.originalWindowStates.size > 0)`
HasWindowsToRestore(size) == size > 0

\* Lines 513-520 of handleScreenRecordingPermission.
PermRestore(p, c0) ==
    LET c == [c0 EXCEPT !.size = Cardinality(DOMAIN originalWindowStates)] IN
    IF HasWindowsToRestore(c.size)
    THEN /\ BeginRestore(p, c, "permFinish")
         /\ UNCHANGED <<isDialogActive, sessions, originalWindowStates>>
    ELSE /\ isDialogActive' = FALSE
         /\ sessions' = {}
         /\ originalWindowStates' = EmptySnapshot
         /\ pc' = [pc EXCEPT ![p] = "done"]
         /\ call' = [call EXCEPT ![p] = FinishPerm(c)]
         /\ UNCHANGED <<restoreTimeout, timerPending>>

ShouldRetryMutant(handled, operationError) == operationError # 0

\* `if (dialogHandled) { if (operationError) { ...retry... } }`
ShouldRetry(handled, operationError) == handled /\ operationError # 0

\* After waitForPermissionDialogCompletion has returned `handled`.
AfterDetect(p, c, handled) ==
    LET c1 == [c EXCEPT !.dialogHandled = IF handled THEN "true" ELSE "false"] IN
    IF ShouldRetry(handled, c1.operationError)
    THEN /\ pc' = [pc EXCEPT ![p] = "op"]
         /\ call' = [call EXCEPT ![p] = [c1 EXCEPT !.invocations = c1.invocations + 1]]
         /\ UNCHANGED <<isDialogActive, sessions, originalWindowStates, restoreTimeout, timerPending>>
    ELSE PermRestore(p, c1)

\* handleSystemDialog(operation, dialogType) up to its first suspension.
HandleSystemDialogCall(p, dt) ==
    /\ pc[p] = "idle"
    /\ lastOp' = Op("lowerAllWindowsForDialog", isDialogActive, EmptySnapshot)
    /\ IF LowerIsNoop(isDialogActive)
       THEN /\ pc' = [pc EXCEPT ![p] = "op"]
            /\ call' = [call EXCEPT ![p] = StartGuarded([IdleCall EXCEPT !.dialogType = dt])]
            /\ UNCHANGED <<isDialogActive, sessions, originalWindowStates, wins>>
       ELSE /\ isDialogActive' = TRUE
            /\ sessions' = sessions \cup {p}
            /\ originalWindowStates' = SaveWindowStates(wins)
            /\ wins' = LowerWindows(wins, SaveWindowStates(wins))
            /\ pc' = [pc EXCEPT ![p] = "settle"]
            /\ call' = [q \in Callers |->
                          IF q = p THEN [IdleCall EXCEPT !.dialogType = dt, !.opened = TRUE]
                          ELSE IF pc[q] = "restoreWait" THEN [call[q] EXCEPT !.stale = TRUE]
                          ELSE call[q]]
    /\ UNCHANGED <<isPinnedOnTop, mediaStatus, platform, restoreTimeout, timerPending,
                   timerRestoring, registry>>

\* A call of handleSystemDialog by one of its callers other than takeScreenshot.
HandleSystemDialog(p, dt) ==
    /\ UNCHANGED <<streamVars, updateVars, duoVars, shotVars>>
    /\ HandleSystemDialogCall(p, dt)

\* The 150 ms settle delay of lowerAllWindowsForDialog has passed.
LowerSettled(p) ==
    /\ UNCHANGED <<streamVars, updateVars, duoVars, shotVars>>
    /\ pc[p] = "settle"
    /\ pc' = [pc EXCEPT ![p] = "op"]
    /\ call' = [call EXCEPT ![p] = StartGuarded(call[p])]
    /\ lastOp' = OtherOp
    /\ UNCHANGED <<wins, isPinnedOnTop, mediaStatus, platform, isDialogActive, sessions,
                   originalWindowStates, restoreTimeout, timerPending, timerRestoring,
                   registry>>

\* operation() settles: it resolves (ok) or rejects.
OperationSettles(p, ok) ==
    /\ UNCHANGED <<streamVars, updateVars, duoVars, shotVars>>
    /\ pc[p] = "op"
    /\ lastOp' = OtherOp
    /\ LET c  == call[p]
           n  == c.invocations
           c1 == IF ok
                 THEN [c EXCEPT !.operationResult = n, !.operationError = 0,
                                !.settled = Append(c.settled, TRUE)]
                 ELSE [c EXCEPT !.operationError = n,
                                !.settled = Append(c.settled, FALSE)]
       IN CASE c.path \in {"plain", "granted"} ->
                 /\ BeginRestore(p, c1, IF ok THEN "return" ELSE "throw")
                 /\ UNCHANGED <<isDialogActive, sessions, originalWindowStates>>
            [] c.path = "perm" /\ n = 1 ->
                 \* waitForPermissionDialogCompletion starts: startTime = now
                 IF WithinWait(0)
                 THEN /\ pc' = [pc EXCEPT ![p] = "pollWait"]
                      /\ call' = [call EXCEPT ![p] = c1]
                      /\ UNCHANGED <<isDialogActive, sessions, originalWindowStates,
                                     restoreTimeout, timerPending>>
                 ELSE AfterDetect(p, c1, FALSE)
            [] OTHER -> PermRestore(p, c1)
    /\ UNCHANGED <<wins, isPinnedOnTop, mediaStatus, platform, timerRestoring, registry>>

PollEffectMutant(w) ==
    [k \in WindowKeys |-> IF w[k].exists THEN [w[k] EXCEPT !.onTop = isPinnedOnTop] ELSE w[k]]

\* What an iteration of the polling loop does to the windows: it reads the
\* status and the clock, and touches no window.
PollEffect(w) == w

\* One iteration of the polling loop: the pollInterval timer fires d units
\* after it was set, the status is read and compared with the baseline.
PollFires(p, d) ==
    /\ UNCHANGED <<streamVars, updateVars, duoVars, shotVars>>
    /\ pc[p] = "pollWait"
    /\ lastOp' = OtherOp
    /\ LET c  == call[p]
           e  == Min(c.elapsed + d, MaxWait)
           c1 == [c EXCEPT !.elapsed = e, !.polls = c.polls + 1,
                           !.sawChange = c.sawChange \/ mediaStatus # c.initialStatus]
       IN IF StatusChanged(mediaStatus, c.initialStatus)
          THEN /\ pc' = [pc EXCEPT ![p] = "dismissWait"]
               /\ call' = [call EXCEPT ![p] = c1]
               /\ UNCHANGED <<isDialogActive, sessions, originalWindowStates, restoreTimeout,
                              timerPending>>
          ELSE IF WithinWait(e)
               THEN /\ pc' = [pc EXCEPT ![p] = "pollWait"]
                    /\ call' = [call EXCEPT ![p] = c1]
                    /\ UNCHANGED <<isDialogActive, sessions, originalWindowStates, restoreTimeout,
                                   timerPending>>
               ELSE AfterDetect(p, c1, FALSE)
    /\ wins' = PollEffect(wins)
    /\ UNCHANGED <<isPinnedOnTop, mediaStatus, platform, timerRestoring, registry>>

\* The 1000 ms wait after a detected change has passed: the detector returns true.
DismissWaitDone(p) ==
    /\ UNCHANGED <<streamVars, updateVars, duoVars, shotVars>>
    /\ pc[p] = "dismissWait"
    /\ lastOp' = OtherOp
    /\ AfterDetect(p, call[p], TRUE)
    /\ UNCHANGED <<wins, isPinnedOnTop, mediaStatus, platform, timerRestoring, registry>>

\* The wait of restoreAllWindowsAfterDialog has passed: the restore loop runs,
\* the session and the snapshot are cleared, and the awaiting call goes on.
RestoreWaitDone(p) ==
    /\ UNCHANGED <<streamVars, updateVars, duoVars, shotVars>>
    /\ pc[p] = "restoreWait"
    /\ lastOp' = Op("restoreAllWindowsAfterDialog", isDialogActive, originalWindowStates)
    /\ wins' = RestoreWindows(wins, originalWindowStates, isPinnedOnTop)
    /\ isDialogActive' = FALSE
    /\ sessions' = {}
    /\ originalWindowStates' = EmptySnapshot
    /\ pc' = [pc EXCEPT ![p] = "done"]
    /\ call' = [call EXCEPT ![p] =
                  Settled([call[p] EXCEPT !.restores = call[p].restores + 1], call[p].cont)]
    /\ UNCHANGED <<isPinnedOnTop, mediaStatus, platform, restoreTimeout, timerPending,
                   timerRestoring, registry>>

\* As RestoreWaitDone, with setAlwaysOnTop throwing for the windows of `thrown`
\* (live windows of the snapshot): each throw is caught and logged inside the loop.
RestoreWaitDoneThrows(p, thrown) ==
    /\ UNCHANGED <<streamVars, updateVars, duoVars, shotVars>>
    /\ pc[p] = "restoreWait"
    /\ thrown # {}
    /\ thrown \subseteq {k \in DOMAIN originalWindowStates : ~originalWindowStates[k].destroyed}
    /\ lastOp' = Op("restoreAllWindowsAfterDialog", isDialogActive, originalWindowStates)
    /\ wins' = RestoreWindowsThrowing(wins, originalWindowStates, isPinnedOnTop, thrown)
    /\ isDialogActive' = FALSE
    /\ sessions' = {}
    /\ originalWindowStates' = EmptySnapshot
    /\ pc' = [pc EXCEPT ![p] = "done"]
    /\ call' = [call EXCEPT ![p] =
                  Settled([call[p] EXCEPT !.restores = call[p].restores + 1,
                                          !.thrown = thrown], call[p].cont)]
    /\ UNCHANGED <<isPinnedOnTop, mediaStatus, platform, restoreTimeout, timerPending,
                   timerRestoring, registry>>

\* The promise of the call settles and the awaiting caller resumes.
TakeOutcome(p) ==
    /\ pc[p] = "done"
    /\ pc' = [pc EXCEPT ![p] = "idle"]
    /\ call' = [call EXCEPT ![p] = IdleCall]
    /\ lastOp' = OtherOp
    /\ UNCHANGED <<wins, isPinnedOnTop, mediaStatus, platform, isDialogActive, sessions,
                   originalWindowStates, restoreTimeout, timerPending, timerRestoring,
                   registry>>

\* The caller has taken the outcome of its call.
Return(p) ==
    /\ UNCHANGED <<streamVars, updateVars, duoVars, shotVars>>
    /\ TakeOutcome(p)

EmergencyFlagMutant(active) == ~active

\* `this.isDialogActive = false` of emergencyRestore.
EmergencyFlag(active) == FALSE

\* emergencyRestore: the timer is cleared, the flag is cleared, and then
\* restoreAllWindowsAfterDialog(0) is called, which finds the flag false and
\* returns at once.
EmergencyRestore ==
    /\ UNCHANGED <<streamVars, updateVars, duoVars, shotVars>>
    /\ lastOp' = Op("emergencyRestore", isDialogActive, originalWindowStates)
    /\ restoreTimeout' = "null"
    /\ timerPending' = FALSE
    /\ isDialogActive' = EmergencyFlag(isDialogActive)
    /\ sessions' = {}
    /\ UNCHANGED <<wins, isPinnedOnTop, mediaStatus, platform, originalWindowStates,
                   timerRestoring, pc, call, registry>>

\* enableSafetyRestore: clears the timer it holds and arms a new one.  Every
\* live timer is the one restoreTimeout refers to (the handle is only dropped
\* after clearTimeout), so at most one is live and timerPending is a flag.
EnableSafetyRestore ==
    /\ UNCHANGED <<streamVars, updateVars, duoVars, shotVars>>
    /\ lastOp' = Op("enableSafetyRestore", isDialogActive, EmptySnapshot)
    /\ restoreTimeout' = "set"
    /\ timerPending' = TRUE
    /\ UNCHANGED <<wins, isPinnedOnTop, mediaStatus, platform, isDialogActive, sessions,
                   originalWindowStates, timerRestoring, pc, call, registry>>

TimerRestoresMutant(active) == FALSE

\* The guard of the safety timer's callback: `if (this.isDialogActive)`.
TimerRestores(active) == active

\* The safety timer fires (maxWaitTime after it was armed; the 100 ms wait of
\* an earlier firing is over by then).
SafetyTimerFires ==
    /\ UNCHANGED <<streamVars, updateVars, duoVars, shotVars>>
    /\ timerPending
    /\ ~timerRestoring
    /\ lastOp' = Op("safetyTimer", isDialogActive, EmptySnapshot)
    /\ timerPending' = FALSE
    /\ IF TimerRestores(isDialogActive)
       THEN /\ restoreTimeout' = "null"
            /\ timerRestoring' = TRUE
       ELSE UNCHANGED <<restoreTimeout, timerRestoring>>
    /\ UNCHANGED <<wins, isPinnedOnTop, mediaStatus, platform, isDialogActive, sessions,
                   originalWindowStates, pc, call, registry>>

\* The wait of the safety timer's restoreAllWindowsAfterDialog(100) has passed.
SafetyRestoreDone ==
    /\ UNCHANGED <<streamVars, updateVars, duoVars, shotVars>>
    /\ timerRestoring
    /\ lastOp' = Op("safetyRestore", isDialogActive, originalWindowStates)
    /\ wins' = RestoreWindows(wins, originalWindowStates, isPinnedOnTop)
    /\ isDialogActive' = FALSE
    /\ sessions' = {}
    /\ originalWindowStates' = EmptySnapshot
    /\ timerRestoring' = FALSE
    /\ UNCHANGED <<isPinnedOnTop, mediaStatus, platform, restoreTimeout, timerPending,
                   pc, call, registry>>

(* ---------------------------------------------------------------------- *)
(* The rest of the application, as far as it touches the windows           *)
(* ---------------------------------------------------------------------- *)

\* createMainWindow / createAuthWindow / createPromptEditorPanel: show: false,
\* alwaysOnTop: false, then setAlwaysOnTop(true, 'screen-saver') if isPinnedOnTop.
CreateWindow(k) ==
    /\ UNCHANGED <<streamVars, updateVars, duoVars, shotVars>>
    /\ k \in registry
    /\ ~wins[k].exists
    /\ wins' = [wins EXCEPT ![k] = [exists |-> TRUE, onTop |-> isPinnedOnTop, visible |-> FALSE]]
    /\ lastOp' = OtherOp
    /\ UNCHANGED <<isPinnedOnTop, mediaStatus, platform, isDialogActive, sessions, originalWindowStates,
                   restoreTimeout, timerPending, timerRestoring, pc, call, registry>>

\* showInactive() / hide()
SetVisible(k, v) ==
    /\ UNCHANGED <<streamVars, updateVars, duoVars, shotVars>>
    /\ wins[k].exists
    /\ wins[k].visible # v
    /\ wins' = [wins EXCEPT ![k].visible = v]
    /\ lastOp' = OtherOp
    /\ UNCHANGED <<isPinnedOnTop, mediaStatus, platform, isDialogActive, sessions, originalWindowStates,
                   restoreTimeout, timerPending, timerRestoring, pc, call, registry>>

\* close(): the window object is destroyed and the 'closed' handler sets the
\* variable to null; a snapshot entry keeps its reference to the destroyed object.
CloseWindow(k) ==
    /\ UNCHANGED <<streamVars, updateVars, duoVars, shotVars>>
    /\ wins[k].exists
    /\ wins' = [wins EXCEPT ![k] = NoWindow]
    /\ originalWindowStates' =
          [x \in DOMAIN originalWindowStates |->
              IF x = k THEN [originalWindowStates[x] EXCEPT !.destroyed = TRUE]
              ELSE originalWindowStates[x]]
    /\ lastOp' = OtherOp
    /\ UNCHANGED <<isPinnedOnTop, mediaStatus, platform, isDialogActive, sessions,
                   restoreTimeout, timerPending, timerRestoring, pc, call, registry>>

\* togglePinOnTop(enabled)
TogglePinOnTop(enabled) ==
    /\ UNCHANGED <<streamVars, updateVars, duoVars, shotVars>>
    /\ isPinnedOnTop' = enabled
    /\ wins' = [k \in WindowKeys |->
                  IF wins[k].exists THEN [wins[k] EXCEPT !.onTop = enabled] ELSE wins[k]]
    /\ lastOp' = OtherOp
    /\ UNCHANGED <<mediaStatus, platform, isDialogActive, sessions, originalWindowStates,
                   restoreTimeout, timerPending, timerRestoring, pc, call, registry>>

\* The user answers the system dialog or changes the permission in System Preferences.
SetMediaStatus(s) ==
    /\ UNCHANGED <<streamVars, updateVars, duoVars, shotVars>>
    /\ s # mediaStatus
    /\ mediaStatus' = s
    /\ lastOp' = OtherOp
    /\ UNCHANGED <<wins, isPinnedOnTop, platform, isDialogActive, sessions, originalWindowStates,
                   restoreTimeout, timerPending, timerRestoring, pc, call, registry>>

(* ---------------------------------------------------------------------- *)
(* takeScreenshot                                                          *)
(* ---------------------------------------------------------------------- *)

\* The channel of an error and of a capture, by forChat.
ShotEvent(forChat, what, value) ==
    [channel |-> IF what = "error"
                 THEN (IF forChat THEN "chat-error" ELSE "screenshot-error")
                 ELSE (IF forChat THEN "chat-screenshot-captured"
                                  ELSE "leetcode-screenshot-captured"),
     value   |-> value]

\* `if (screenAccess !== 'granted')` at the start of the call.
NeedsRequest(status) == status # "granted"

StillDeniedMutant(status) == FALSE

\* `if (newScreenAccess !== 'granted')` after the request.
StillDenied(status) == status # "granted"

\* takeScreenshot(forChat) up to its first await: on macOS without the
\* permission that is the handleSystemDialog call, made as caller c1; else
\* it is desktopCapturer.getSources of the capture.
TakeScreenshot(forChat) ==
    /\ UNCHANGED <<streamVars, updateVars, duoVars>>
    /\ tsPc = "idle"
    /\ pc["c1"] = "idle"
    /\ tsForChat' = forChat
    /\ IF platform = "darwin" /\ NeedsRequest(mediaStatus)
       THEN /\ tsPc' = "request"
            /\ tsReread' = "pending"
            /\ HandleSystemDialogCall("c1", "screen-recording")
       ELSE /\ tsPc' = "capture"
            /\ tsReread' = "none"
            /\ UNCHANGED dialogVars
    /\ UNCHANGED tsEvents

\* The handleSystemDialog call has settled.  If it threw, the catch of
\* permissionError sends the error; else the status is read again and the
\* call goes on to the capture only if it is granted.
PermissionSettled ==
    /\ UNCHANGED <<streamVars, updateVars, duoVars>>
    /\ tsPc = "request"
    /\ TakeOutcome("c1")
    /\ IF call["c1"].outcome[1] = "error"
       THEN /\ tsEvents' = Append(tsEvents, ShotEvent(tsForChat, "error", "Permission Request Failed"))
            /\ tsPc' = "done"
            /\ UNCHANGED tsReread
       ELSE /\ tsReread' = mediaStatus
            /\ IF StillDenied(mediaStatus)
               THEN /\ tsEvents' = Append(tsEvents, ShotEvent(tsForChat, "error",
                                                             "Screen Recording Permission Required"))
                    /\ tsPc' = "done"
               ELSE /\ tsPc' = "capture"
                    /\ UNCHANGED tsEvents
    /\ UNCHANGED tsForChat

\* desktopCapturer.getSources of the capture settles: with a screen, with no
\* screen, or it rejects and the outer catch sends the error.
GetSources(res) ==
    /\ UNCHANGED <<dialogVars, streamVars, updateVars, duoVars>>
    /\ tsPc = "capture"
    /\ tsPc' = "done"
    /\ tsEvents' = Append(tsEvents,
          CASE res = "screen" -> ShotEvent(tsForChat, "captured", "png")
            [] res = "empty"  -> ShotEvent(tsForChat, "error", "No screens found")
            [] OTHER          -> ShotEvent(tsForChat, "error", "Screenshot Failed"))
    /\ UNCHANGED <<tsForChat, tsReread>>

(* ---------------------------------------------------------------------- *)
(* Streaming requests: sendChatMessage / processAccumulatedScreenshots     *)
(* ---------------------------------------------------------------------- *)

\* The response text is a sequence of fragments: a read may end after any one
\* of them.  "da" "ta: " make up the 'data: ' marker and each JSON payload
\* comes in two halves, so that a read can end inside the marker or inside
\* the payload.
NL == "\n"

DataMarker == <<"da", "ta: ">>

ChunkHi    == <<"{\"chu", "nk\":\"hi\"}">>
ChunkYo    == <<"{\"chu", "nk\":\"yo\"}">>
ChunkEmpty == <<"{\"chu", "nk\":\"\"}">>
Complete   == <<"{\"com", "plete\":true}">>
ErrorBoom  == <<"{\"err", "or\":\"boom\"}">>

\* The lines a response is made of, each with its newline: the five payload
\* shapes, a data line cut short (invalid JSON), an empty line and a line
\* without the marker.
Lines ==
    { DataMarker \o ChunkHi \o <<NL>>,
      DataMarker \o ChunkYo \o <<NL>>,
      DataMarker \o ChunkEmpty \o <<NL>>,
      DataMarker \o Complete \o <<NL>>,
      DataMarker \o ErrorBoom \o <<NL>>,
      DataMarker \o <<"{\"chu", NL>>,
      <<NL>>,
      <<": ping", NL>> }

\* Number of lines of a response body.
MaxLines == 2

\* No line has more than five fragments.
MaxBodyLen == 5 * MaxLines

RECURSIVE Bodies(_)
Bodies(n) ==
    IF n = 0 THEN {<<>>}
    ELSE Bodies(n - 1) \cup {b \o l : b \in Bodies(n - 1), l \in Lines}

\* chunk.split('\n')
RECURSIVE Split(_)
Split(chunk) ==
    IF \A i \in 1..Len(chunk) : chunk[i] # NL
    THEN <<chunk>>
    ELSE LET i == CHOOSE j \in 1..Len(chunk) :
                      chunk[j] = NL /\ \A h \in 1..(j - 1) : chunk[h] # NL
         IN <<SubSeq(chunk, 1, i - 1)>> \o Split(SubSeq(chunk, i + 1, Len(chunk)))

\* line.startsWith('data: ')
StartsWithData(line) ==
    Len(line) >= 2 /\ SubSeq(line, 1, 2) = DataMarker

\* line.slice(6)
Slice6(line) == SubSeq(line, 3, Len(line))

\* JSON.parse: the object, or the SyntaxError it throws.
JSONParse(text) ==
    CASE text = ChunkHi    -> [field |-> "chunk", value |-> "hi"]
      [] text = ChunkYo    -> [field |-> "chunk", value |-> "yo"]
      [] text = ChunkEmpty -> [field |-> "chunk", value |-> ""]
      [] text = Complete   -> [field |-> "complete", value |-> "true"]
      [] text = ErrorBoom  -> [field |-> "error", value |-> "boom"]
      [] OTHER             -> [field |-> "SyntaxError", value |-> ""]

TruthyMutant(data, f) == data.field = f

\* `if (data.chunk)`, `if (data.complete)`, `if (data.error)`: the field is
\* there and its value is truthy.
Truthy(data, f) == data.field = f /\ data.value # ""

\* The channels of the two request kinds.
Channel(kind, what) ==
    CASE what = "start"    -> IF kind = "chat" THEN "chat-stream-start" ELSE "screenshot-stream-start"
      [] what = "chunk"    -> IF kind = "chat" THEN "chat-stream-chunk" ELSE "screenshot-stream-chunk"
      [] what = "complete" -> IF kind = "chat" THEN "chat-stream-complete" ELSE "screenshot-stream-complete"
      [] OTHER             -> IF kind = "chat" THEN "chat-error" ELSE "screenshot-error"

Event(kind, what, value) == [channel |-> Channel(kind, what), value |-> value]

ParseErrorActionMutant(data) == "error"

\* `catch (parseError) { console.error(...) }`: the line is given up and the
\* for loop goes on.
ParseErrorAction(data) == "skip"

\* What one line makes the loop body do: "skip" (no marker, or JSON.parse
\* threw, or no known field), "chunk", "complete" or "error".
LineAction(line) ==
    IF ~StartsWithData(line) THEN "skip"
    ELSE LET data == JSONParse(Slice6(line)) IN
         IF data.field = "SyntaxError" THEN ParseErrorAction(data)
         ELSE IF Truthy(data, "chunk") THEN "chunk"
         ELSE IF Truthy(data, "complete") THEN "complete"
         ELSE IF Truthy(data, "error") THEN "error"
         ELSE "skip"

ReturnsMutant(action) == action = "complete"

\* The `return` after a complete or error line.
Returns(action) == action \in {"complete", "error"}

\* `for (const line of lines)`: the events sent for lines i.. and whether the
\* function returned from inside the loop.
RECURSIVE ProcessLines(_, _, _)
ProcessLines(kind, lines, i) ==
    IF i > Len(lines) THEN [events |-> <<>>, returned |-> FALSE]
    ELSE LET a == LineAction(lines[i]) IN
         IF a = "skip" THEN ProcessLines(kind, lines, i + 1)
         ELSE LET e == Event(kind, a, IF a = "complete" THEN "" ELSE JSONParse(Slice6(lines[i])).value)
              IN IF Returns(a)
                 THEN [events |-> <<e>>, returned |-> TRUE]
                 ELSE LET rest == ProcessLines(kind, lines, i + 1)
                      IN [events |-> <<e>> \o rest.events, returned |-> rest.returned]

\* One pass of the while loop for the bytes of one read: decode, split, process.
ProcessRead(kind, value) == ProcessLines(kind, Split(value), 1)

ReleaseLockMutant(locked) == locked

\* `finally { reader.releaseLock() }`
ReleaseLock(locked) == FALSE

\* The request function is called with the response the server will give.
StartRequest(kind, b) ==
    /\ UNCHANGED <<dialogVars, updateVars, duoVars, shotVars>>
    /\ sPc = "idle"
    /\ sKind' = kind
    /\ sPc' = "fetch"
    /\ body' = b
    /\ fullBody' = b
    /\ UNCHANGED <<uiEvents, readerLocked, wholeReads, sEnd>>

StreamStartMutant(kind) == <<>>

\* win.webContents.send('chat-stream-start') / send('screenshot-stream-start'),
\* between the `response.ok` test and getReader().
StreamStart(kind) == <<Event(kind, "start", "")>>

\* fetch resolves with response.ok: stream-start is sent and the reader acquired.
FetchOk ==
    /\ UNCHANGED <<dialogVars, updateVars, duoVars, shotVars>>
    /\ sPc = "fetch"
    /\ sPc' = "reading"
    /\ uiEvents' = uiEvents \o StreamStart(sKind)
    /\ readerLocked' = TRUE
    /\ UNCHANGED <<sKind, body, fullBody, wholeReads, sEnd>>

\* fetch rejects, or resolves with !response.ok: the throw lands in the outer
\* catch, which sends the error event.
FetchFails ==
    /\ UNCHANGED <<dialogVars, updateVars, duoVars, shotVars>>
    /\ sPc = "fetch"
    /\ sPc' = "returned"
    /\ sEnd' = "caught"
    /\ uiEvents' = Append(uiEvents, Event(sKind, "error", "HTTP"))
    /\ UNCHANGED <<sKind, body, fullBody, readerLocked, wholeReads>>

\* reader.read() resolves with the next n fragments of the body.
Read(n) ==
    /\ UNCHANGED <<dialogVars, updateVars, duoVars, shotVars>>
    /\ sPc = "reading"
    /\ n \in 1..Len(body)
    /\ LET r == ProcessRead(sKind, SubSeq(body, 1, n)) IN
       /\ uiEvents' = uiEvents \o r.events
       /\ body' = SubSeq(body, n + 1, Len(body))
       /\ IF r.returned
          THEN /\ sPc' = "returned"
               /\ sEnd' = "terminal"
               /\ readerLocked' = ReleaseLock(readerLocked)
          ELSE UNCHANGED <<sPc, sEnd, readerLocked>>
    /\ wholeReads' = (wholeReads /\ body[n] = NL)
    /\ UNCHANGED <<sKind, fullBody>>

\* The lines of one read that reach a webContents.send.
Sending(value) ==
    {i \in 1..Len(Split(value)) : LineAction(Split(value)[i]) # "skip"}

\* As Read, with win.webContents.send throwing (win is null or destroyed
\* during this turn): the send of each chunk, complete or error line is inside
\* the try whose catch logs `parseError`, so the throw is caught there, the
\* `return` that follows a terminal send is not reached and the for loop goes
\* on with the next line.
ReadSendThrows(n) ==
    /\ UNCHANGED <<dialogVars, updateVars, duoVars, shotVars>>
    /\ sPc = "reading"
    /\ n \in 1..Len(body)
    /\ Sending(SubSeq(body, 1, n)) # {}
    /\ body' = SubSeq(body, n + 1, Len(body))
    /\ wholeReads' = (wholeReads /\ body[n] = NL)
    /\ UNCHANGED <<sKind, sPc, fullBody, uiEvents, readerLocked, sEnd>>

\* reader.read() resolves with done: break, finally releaseLock(), and the
\* function returns with nothing more sent.
ReadDone ==
    /\ UNCHANGED <<dialogVars, updateVars, duoVars, shotVars>>
    /\ sPc = "reading"
    /\ body = <<>>
    /\ sPc' = "returned"
    /\ sEnd' = "exhausted"
    /\ readerLocked' = ReleaseLock(readerLocked)
    /\ UNCHANGED <<sKind, body, fullBody, uiEvents, wholeReads>>

\* reader.read() rejects (the connection broke): finally releaseLock(), then
\* the outer catch sends the error event.
ReadThrows ==
    /\ UNCHANGED <<dialogVars, updateVars, duoVars, shotVars>>
    /\ sPc = "reading"
    /\ sPc' = "returned"
    /\ sEnd' = "caught"
    /\ readerLocked' = ReleaseLock(readerLocked)
    /\ uiEvents' = Append(uiEvents, Event(sKind, "error", "network"))
    /\ UNCHANGED <<sKind, body, fullBody, wholeReads>>

(* ---------------------------------------------------------------------- *)
(* ipcMain.handle('chat:send-message'): invocations in flight together     *)
(* ---------------------------------------------------------------------- *)

\* The handler calls sendChatMessage for every invocation it receives; two
\* invocations are followed.
Requests == {"r1", "r2"}

\* The responses of the server to these invocations: chunk lines and a
\* complete line.
ChatLines ==
    { DataMarker \o ChunkHi \o <<NL>>,
      DataMarker \o ChunkYo \o <<NL>>,
      DataMarker \o Complete \o <<NL>> }

RECURSIVE ChatBodies(_)
ChatBodies(n) ==
    IF n = 0 THEN {<<>>}
    ELSE ChatBodies(n - 1) \cup {b \o l : b \in ChatBodies(n - 1), l \in ChatLines}

Tag(r, events) == [i \in 1..Len(events) |-> [req |-> r, channel |-> events[i].channel,
                                              value |-> events[i].value]]

\* The handler is invoked: sendChatMessage runs up to `await fetch(...)`.
ChatSendMessage(r, b) ==
    /\ UNCHANGED <<dialogVars, streamVars, updateVars, shotVars>>
    /\ reqPc[r] = "idle"
    /\ reqPc' = [reqPc EXCEPT ![r] = "fetch"]
    /\ reqBody' = [reqBody EXCEPT ![r] = b]
    /\ UNCHANGED channelLog

\* fetch resolves with response.ok for invocation r.
ChatFetchOk(r) ==
    /\ UNCHANGED <<dialogVars, streamVars, updateVars, shotVars>>
    /\ reqPc[r] = "fetch"
    /\ reqPc' = [reqPc EXCEPT ![r] = "reading"]
    /\ channelLog' = channelLog \o Tag(r, StreamStart("chat"))
    /\ UNCHANGED reqBody

\* fetch rejects or the response is not OK: the outer catch sends the error.
ChatFetchFails(r) ==
    /\ UNCHANGED <<dialogVars, streamVars, updateVars, shotVars>>
    /\ reqPc[r] = "fetch"
    /\ reqPc' = [reqPc EXCEPT ![r] = "returned"]
    /\ channelLog' = channelLog \o Tag(r, <<Event("chat", "error", "HTTP")>>)
    /\ UNCHANGED reqBody

\* reader.read() of invocation r resolves with the next n fragments.
ChatRead(r, n) ==
    /\ UNCHANGED <<dialogVars, streamVars, updateVars, shotVars>>
    /\ reqPc[r] = "reading"
    /\ n \in 1..Len(reqBody[r])
    /\ LET res == ProcessRead("chat", SubSeq(reqBody[r], 1, n)) IN
       /\ channelLog' = channelLog \o Tag(r, res.events)
       /\ reqBody' = [reqBody EXCEPT ![r] = SubSeq(reqBody[r], n + 1, Len(reqBody[r]))]
       /\ reqPc' = [reqPc EXCEPT ![r] = IF res.returned THEN "returned" ELSE "reading"]

\* reader.read() of invocation r resolves with done.
ChatReadDone(r) ==
    /\ UNCHANGED <<dialogVars, streamVars, updateVars, shotVars>>
    /\ reqPc[r] = "reading"
    /\ reqBody[r] = <<>>
    /\ reqPc' = [reqPc EXCEPT ![r] = "returned"]
    /\ UNCHANGED <<reqBody, channelLog>>

\* No invocation has been made.
NoDuo ==
    /\ reqPc = [r \in Requests |-> "idle"]
    /\ reqBody = [r \in Requests |-> <<>>]
    /\ channelLog = <<>>

\* takeScreenshot has not been called.
NoShot ==
    /\ tsPc = "idle"
    /\ tsForChat = FALSE
    /\ tsReread = "none"
    /\ tsEvents = <<>>

(* ---------------------------------------------------------------------- *)
(* setupAutoUpdater: the handlers of the electron-updater events           *)
(* ---------------------------------------------------------------------- *)

\* A version string: an optional 'v', major.minor.patch and an optional
\* pre-release suffix.
Versions ==
    [prefix : {"", "v"}, major : {1}, minor : {3, 4}, patch : {0}, suffix : {"", "-beta"}]

NoVersion == [prefix |-> "", major |-> 0, minor |-> 0, patch |-> 0, suffix |-> ""]

\* normalizeVersion: v.replace(/^v/, '')
NormalizeVersion(v) == [v EXCEPT !.prefix = ""]

SameVersionMutant(current, available) == FALSE

\* currentNormalized === availableNormalized
SameVersion(current, available) == NormalizeVersion(current) = NormalizeVersion(available)

\* `if (win && !win.isDestroyed()) win.webContents.send(...)`
Notify(type) == IF wins["main"].exists THEN Append(notes, type) ELSE notes

\* Bound on the notifications of one run.
MaxNotes == 2

\* ipcMain.handle('updater:check-for-updates') in a packaged app:
\* autoUpdater.checkForUpdates() starts a check; the handler awaits it, and
\* one check is made at a time.
CheckForUpdates ==
    /\ UNCHANGED <<dialogVars, streamVars, duoVars, shotVars>>
    /\ ~restarted
    /\ uPhase = "idle"
    /\ Len(notes) < MaxNotes
    /\ uPhase' = "checking"
    /\ skipped' = FALSE
    /\ failed' = FALSE
    /\ UNCHANGED <<currentVersion, offered, notes, restartPending, restarted>>

\* 'update-available': the handler compares the versions and announces the
\* download unless they are the same string; with autoDownload = true the
\* updater goes on to download whatever the handler did.
UpdateAvailable(v) ==
    /\ UNCHANGED <<dialogVars, streamVars, duoVars, shotVars>>
    /\ ~restarted
    /\ uPhase = "checking"
    /\ offered' = v
    /\ IF SameVersion(currentVersion, v)
       THEN /\ notes' = Notify("up-to-date")
            /\ skipped' = TRUE
       ELSE /\ notes' = Notify("download-started")
            /\ skipped' = FALSE
    /\ uPhase' = "downloading"
    /\ UNCHANGED <<currentVersion, restartPending, restarted, failed>>

\* 'update-not-available'
UpdateNotAvailable ==
    /\ UNCHANGED <<dialogVars, streamVars, duoVars, shotVars>>
    /\ ~restarted
    /\ uPhase = "checking"
    /\ notes' = Notify("up-to-date")
    /\ uPhase' = "idle"
    /\ UNCHANGED <<currentVersion, offered, restartPending, restarted, skipped, failed>>

\* 'download-progress'
DownloadProgress ==
    /\ UNCHANGED <<dialogVars, streamVars, duoVars, shotVars>>
    /\ ~restarted
    /\ uPhase = "downloading"
    /\ Len(notes) < MaxNotes
    /\ notes' = Notify("update-progress")
    /\ UNCHANGED <<currentVersion, uPhase, offered, restartPending, restarted, skipped, failed>>

\* 'update-downloaded': the installing notice, then the 2000 ms timer is set.
UpdateDownloaded ==
    /\ UNCHANGED <<dialogVars, streamVars, duoVars, shotVars>>
    /\ ~restarted
    /\ uPhase = "downloading"
    /\ notes' = Notify("installing")
    /\ restartPending' = TRUE
    /\ uPhase' = "downloaded"
    /\ UNCHANGED <<currentVersion, offered, restarted, skipped, failed>>

TimerAfterErrorMutant(pending) == FALSE

\* The 'error' handler logs and notifies; it does not touch the restart timer.
TimerAfterError(pending) == pending

\* 'error', in whatever phase the updater is.
UpdaterError ==
    /\ UNCHANGED <<dialogVars, streamVars, duoVars, shotVars>>
    /\ ~restarted
    /\ uPhase # "idle"
    /\ notes' = Notify("error")
    /\ uPhase' = "idle"
    /\ failed' = TRUE
    /\ restartPending' = TimerAfterError(restartPending)
    /\ UNCHANGED <<currentVersion, offered, restarted, skipped>>

\* The 2000 ms timer fires: autoUpdater.quitAndInstall(false, true).
QuitAndInstall ==
    /\ UNCHANGED <<dialogVars, streamVars, duoVars, shotVars>>
    /\ restartPending
    /\ restartPending' = FALSE
    /\ restarted' = TRUE
    /\ UNCHANGED <<currentVersion, uPhase, offered, notes, skipped, failed>>

\* setupAutoUpdater has run and no check has been made.
NoUpdate ==
    /\ currentVersion = [prefix |-> "", major |-> 1, minor |-> 3, patch |-> 0, suffix |-> ""]
    /\ uPhase = "idle"
    /\ offered = NoVersion
    /\ notes = <<>>
    /\ restartPending = FALSE
    /\ restarted = FALSE
    /\ skipped = FALSE
    /\ failed = FALSE

(* ---------------------------------------------------------------------- *)
(* Specifications                                                          *)
(* ---------------------------------------------------------------------- *)

\* The state after `new PermissionDialogManager()` and before any window exists.
InitDialog(reg, plats, pins, stats) ==
    /\ registry = reg
    /\ platform \in plats
    /\ isPinnedOnTop \in pins
    /\ mediaStatus \in stats
    /\ wins = [k \in WindowKeys |-> NoWindow]
    /\ isDialogActive = FALSE
    /\ sessions = {}
    /\ originalWindowStates = EmptySnapshot
    /\ restoreTimeout = "null"
    /\ timerPending = FALSE
    /\ timerRestoring = FALSE
    /\ pc = [p \in Callers |-> "idle"]
    /\ call = [p \in Callers |-> IdleCall]
    /\ lastOp = OtherOp

\* No streaming request has been made.
NoStream ==
    /\ sKind = "chat"
    /\ sPc = "idle"
    /\ body = <<>>
    /\ fullBody = <<>>
    /\ uiEvents = <<>>
    /\ readerLocked = FALSE
    /\ wholeReads = TRUE
    /\ sEnd = "none"

CallerStep(p) ==
    \/ \E dt \in DialogTypes : HandleSystemDialog(p, dt)
    \/ LowerSettled(p)
    \/ \E ok \in BOOLEAN : OperationSettles(p, ok)
    \/ \E d \in 1..MaxLate : PollFires(p, d)
    \/ DismissWaitDone(p)
    \/ RestoreWaitDone(p)
    \/ Return(p)

WindowStep ==
    \/ \E k \in WindowKeys : CreateWindow(k)
    \/ \E k \in WindowKeys, v \in BOOLEAN : SetVisible(k, v)
    \/ \E k \in WindowKeys : CloseWindow(k)
    \/ \E e \in BOOLEAN : TogglePinOnTop(e)

\* Every entry point of the coordinator, one caller of handleSystemDialog.
Init == InitDialog({"main"}, Platforms, BOOLEAN, {"not-determined"}) /\ NoStream /\ NoUpdate /\ NoDuo /\ NoShot

Next ==
    \/ CallerStep("c1")
    \/ WindowStep
    \/ \E s \in Statuses : SetMediaStatus(s)
    \/ EmergencyRestore
    \/ EnableSafetyRestore
    \/ SafetyTimerFires
    \/ SafetyRestoreDone

Spec == Init /\ [][Next]_vars

\* Two concurrent callers of handleSystemDialog: c1 with any dialog type, c2
\* with the keychain requests of storeToken / getStoredToken / removeStoredToken.
PlainStep(p) ==
    \/ HandleSystemDialog(p, "keychain-store")
    \/ LowerSettled(p)
    \/ \E ok \in BOOLEAN : OperationSettles(p, ok)
    \/ RestoreWaitDone(p)
    \/ Return(p)

InitConc == InitDialog({"main"}, {"darwin"}, BOOLEAN, {"not-determined"}) /\ NoStream /\ NoUpdate /\ NoDuo /\ NoShot

NextConc ==
    \/ CallerStep("c1")
    \/ PlainStep("c2")
    \/ CreateWindow("main")
    \/ CloseWindow("main")
    \/ \E s \in Statuses : SetMediaStatus(s)
    \/ EmergencyRestore

SpecConc == InitConc /\ [][NextConc]_vars

\* One handleSystemDialog call at a time and no other call into the coordinator.
InitSolo == InitDialog({"main", "auth"}, Platforms, BOOLEAN, Statuses) /\ NoStream /\ NoUpdate /\ NoDuo /\ NoShot

NextSolo ==
    \/ CallerStep("c1")
    \/ WindowStep
    \/ \E s \in Statuses : SetMediaStatus(s)

SpecSolo == InitSolo /\ [][NextSolo]_vars

\* The three windows of the application with the pinned preference on, one
\* keychain caller and the fault handlers.
InitScene == InitDialog(WindowKeys, {"win32"}, {TRUE}, {"not-determined"}) /\ NoStream /\ NoUpdate /\ NoDuo /\ NoShot

NextScene ==
    \/ PlainStep("c1")
    \/ \E k \in WindowKeys : CreateWindow(k)
    \/ \E k \in WindowKeys, v \in BOOLEAN : SetVisible(k, v)
    \/ \E k \in WindowKeys : CloseWindow(k)
    \/ EmergencyRestore

SpecScene == InitScene /\ [][NextScene]_vars

\* One keychain caller and two windows whose setAlwaysOnTop may throw in the
\* restore loop.
InitThrow == InitDialog({"main", "auth"}, {"win32"}, {TRUE}, {"not-determined"}) /\ NoStream /\ NoUpdate /\ NoDuo /\ NoShot

NextThrow ==
    \/ PlainStep("c1")
    \/ \E thrown \in SUBSET {"main", "auth"} : RestoreWaitDoneThrows("c1", thrown)
    \/ \E k \in {"main", "auth"} : CreateWindow(k)
    \/ \E k \in {"main", "auth"}, v \in BOOLEAN : SetVisible(k, v)

SpecThrow == InitThrow /\ [][NextThrow]_vars

\* The coordinator with its timers and one keychain caller, under the
\* scheduling of the event loop: a timer that is set fires, and an operation
\* that was started settles.  Nothing obliges the application to make a new
\* call into the coordinator or to touch a window.
InitLive == InitDialog({"main"}, {"win32"}, BOOLEAN, {"not-determined"}) /\ NoStream /\ NoUpdate /\ NoDuo /\ NoShot

NextLive ==
    \/ PlainStep("c1")
    \/ CreateWindow("main")
    \/ \E v \in BOOLEAN : SetVisible("main", v)
    \/ CloseWindow("main")
    \/ EmergencyRestore
    \/ EnableSafetyRestore
    \/ SafetyTimerFires
    \/ SafetyRestoreDone

EventLoop ==
    /\ WF_vars(LowerSettled("c1"))
    /\ WF_vars(\E ok \in BOOLEAN : OperationSettles("c1", ok))
    /\ WF_vars(RestoreWaitDone("c1"))
    /\ WF_vars(SafetyTimerFires)
    /\ WF_vars(SafetyRestoreDone)

SpecLive == InitLive /\ [][NextLive]_vars /\ EventLoop

\* The updater in a packaged application of any version, with the main window
\* there or not; the restart timer fires once it is set.
InitUpdate ==
    /\ InitDialog({"main"}, {"darwin"}, {FALSE}, {"not-determined"})
    /\ NoStream
    /\ currentVersion \in Versions
    /\ uPhase = "idle"
    /\ offered = NoVersion
    /\ notes = <<>>
    /\ restartPending = FALSE
    /\ restarted = FALSE
    /\ skipped = FALSE
    /\ failed = FALSE
    /\ NoDuo
    /\ NoShot

NextUpdate ==
    \/ CheckForUpdates
    \/ \E v \in Versions : UpdateAvailable(v)
    \/ UpdateNotAvailable
    \/ DownloadProgress
    \/ UpdateDownloaded
    \/ UpdaterError
    \/ QuitAndInstall
    \/ CreateWindow("main")
    \/ CloseWindow("main")

SpecUpdate == InitUpdate /\ [][NextUpdate]_vars /\ WF_vars(QuitAndInstall)

\* One streaming request of either kind, for every response body of up to
\* MaxLines lines and every way the reads cut it.
InitStream ==
    /\ InitDialog({"main"}, {"darwin"}, {FALSE}, {"not-determined"})
    /\ NoStream
    /\ NoUpdate
    /\ NoDuo
    /\ NoShot

NextStream ==
    \/ \E kind \in {"chat", "screenshot"}, b \in Bodies(MaxLines) : StartRequest(kind, b)
    \/ FetchOk
    \/ FetchFails
    \/ \E n \in 1..MaxBodyLen : Read(n)
    \/ ReadDone
    \/ ReadThrows

SpecStream == InitStream /\ [][NextStream]_vars

\* One takeScreenshot call on macOS, from any permission status, while the
\* user may change the status and the main window comes and goes.
InitShot ==
    /\ InitDialog({"main"}, {"darwin"}, BOOLEAN, Statuses)
    /\ NoStream
    /\ NoUpdate
    /\ NoDuo
    /\ NoShot

NextShot ==
    \/ \E forChat \in BOOLEAN : TakeScreenshot(forChat)
    \/ LowerSettled("c1")
    \/ \E ok \in BOOLEAN : OperationSettles("c1", ok)
    \/ \E d \in 1..MaxLate : PollFires("c1", d)
    \/ DismissWaitDone("c1")
    \/ RestoreWaitDone("c1")
    \/ PermissionSettled
    \/ \E res \in {"screen", "empty", "throws"} : GetSources(res)
    \/ \E s \in Statuses : SetMediaStatus(s)
    \/ CreateWindow("main")
    \/ CloseWindow("main")

SpecShot == InitShot /\ [][NextShot]_vars

\* Two invocations of 'chat:send-message' whose requests are in flight at
\* once, for every pair of responses of up to MaxLines lines.
NextDuo ==
    \/ \E r \in Requests, b \in ChatBodies(MaxLines) : ChatSendMessage(r, b)
    \/ \E r \in Requests : ChatFetchOk(r)
    \/ \E r \in Requests : ChatFetchFails(r)
    \/ \E r \in Requests, n \in 1..MaxBodyLen : ChatRead(r, n)
    \/ \E r \in Requests : ChatReadDone(r)

SpecDuo == InitStream /\ [][NextDuo]_vars

\* As SpecStream, with reads during which the window cannot be sent to.
NextStreamThrow ==
    \/ NextStream
    \/ \E n \in 1..MaxBodyLen : ReadSendThrows(n)

SpecStreamThrow == InitStream /\ [][NextStreamThrow]_vars

(* ---------------------------------------------------------------------- *)
(* Claims about the coordinator                                            *)
(* ---------------------------------------------------------------------- *)

C1_NoopLowerStep ==
    \A p \in Callers :
        (pc[p] = "idle" /\ pc'[p] # "idle" /\ isDialogActive) =>
            /\ isDialogActive'
            /\ originalWindowStates' = originalWindowStates
            /\ wins' = wins
            /\ pc'[p] = "op"

\* C1: at most one dialog session is open at any time, and a call of
\* lowerAllWindowsForDialog made while a session is active leaves the flag, the
\* snapshot and every window level as they were and goes on to the operation
\* without an exception.
C1_SingleSession ==
    /\ [](Cardinality(sessions) <= 1)
    /\ [][C1_NoopLowerStep]_vars

\* A second caller has just been let through by a no-op lower while the
\* session of the first holds a lowered, formerly elevated window.
C1_Witness ==
    /\ lastOp = Op("lowerAllWindowsForDialog", TRUE, EmptySnapshot)
    /\ isDialogActive
    /\ \E p \in Callers : pc[p] = "op" /\ ~call[p].opened
    /\ \E k \in DOMAIN originalWindowStates : originalWindowStates[k].isAlwaysOnTop

\* C2: when restoreAllWindowsAfterDialog has run its loop, every window of the
\* snapshot that is not destroyed is elevated iff the pinned preference is on
\* and the window was visible at snapshot time, whatever level the snapshot
\* recorded for it.
C2_RestoreLevels ==
    lastOp.name \in {"restoreAllWindowsAfterDialog", "safetyRestore"} =>
        \A k \in DOMAIN lastOp.snap :
            ~lastOp.snap[k].destroyed =>
                /\ wins[k].exists
                /\ wins[k].onTop = (isPinnedOnTop /\ lastOp.snap[k].isVisible)

\* A restore has just elevated a window that was not elevated at snapshot time.
C2_Witness ==
    /\ lastOp.name = "restoreAllWindowsAfterDialog"
    /\ \E k \in DOMAIN lastOp.snap :
          /\ ~lastOp.snap[k].destroyed
          /\ ~lastOp.snap[k].isAlwaysOnTop
          /\ wins[k].onTop

\* C3: while the caller that opened the session is still inside its guarded
\* operation, no restore completed by another handleSystemDialog call clears
\* the session or changes a window level.
C3_SessionOutlivesOperation ==
    [][\A q \in sessions :
          (pc[q] = "op" /\ lastOp'.name = "restoreAllWindowsAfterDialog") =>
              /\ isDialogActive'
              /\ q \in sessions'
              /\ wins' = wins]_vars

\* C4: right after emergencyRestore was called on an active session no safety
\* timer is pending, the flag is false and every surviving window of the
\* snapshot is at its restore level.
C4_EmergencyRestores ==
    (lastOp.name = "emergencyRestore" /\ lastOp.active) =>
        /\ ~timerPending
        /\ ~isDialogActive
        /\ \A k \in DOMAIN lastOp.snap :
              ~lastOp.snap[k].destroyed =>
                  wins[k].onTop = (isPinnedOnTop /\ lastOp.snap[k].isVisible)

\* C8: in the permission path entered without the capability, the operation
\* is invoked at most twice; it is retried exactly when the detector resolved
\* and the first invocation failed, and then the caller gets the retry's own
\* result or error; otherwise the caller gets the first invocation's outcome.
C8_RetryOnce ==
    \A p \in Callers :
        LET c == call[p]
            OutcomeOf(n) == <<IF c.settled[n] THEN "result" ELSE "error", n>>
        IN c.path = "perm" =>
            /\ c.invocations <= 2
            /\ pc[p] = "done" =>
                 /\ c.dialogHandled \in {"true", "false"}
                 /\ (c.dialogHandled = "true" /\ ~c.settled[1]) =>
                        (c.invocations = 2 /\ Len(c.settled) = 2 /\ c.outcome = OutcomeOf(2))
                 /\ (c.dialogHandled = "false" \/ c.settled[1]) =>
                        (c.invocations = 1 /\ Len(c.settled) = 1 /\ c.outcome = OutcomeOf(1))

\* A call settles with the error of its retry after a resolved detection.
C8_Witness ==
    \E p \in Callers :
        /\ pc[p] = "done"
        /\ call[p].path = "perm"
        /\ call[p].dialogHandled = "true"
        /\ call[p].settled = <<FALSE, FALSE>>
        /\ call[p].outcome = <<"error", 2>>

\* C9: waitForPermissionDialogCompletion returns true exactly when one of its
\* polls read a status other than the baseline (whichever), returns false
\* otherwise and only once maxWaitMs has elapsed, and makes no more polls than
\* maxWaitMs holds poll intervals.
C9_Detector ==
    \A p \in Callers :
        LET c == call[p] IN
        /\ c.polls <= MaxWait
        /\ c.dialogHandled = "true" => c.sawChange
        /\ c.dialogHandled = "false" => (~c.sawChange /\ c.elapsed >= MaxWait)
        /\ c.sawChange => (pc[p] = "dismissWait" \/ c.dialogHandled = "true")
        /\ pc[p] = "pollWait" => c.elapsed < MaxWait

\* The detector returned true for a change to "denied" seen at its last poll.
C9_Witness ==
    \E p \in Callers :
        /\ call[p].dialogHandled = "true"
        /\ call[p].initialStatus = "not-determined"
        /\ mediaStatus = "denied"
        /\ call[p].polls = MaxWait

\* C10: a handleSystemDialog call of a non-permission kind, alone in the
\* coordinator, invokes the operation once and settles with that invocation's
\* result or error, after one restore that left the session inactive and the
\* snapshot empty.
C10_PlainCall ==
    (pc["c1"] = "done" /\ call["c1"].path = "plain") =>
        LET c == call["c1"] IN
        /\ c.invocations = 1
        /\ Len(c.settled) = 1
        /\ c.outcome = <<IF c.settled[1] THEN "result" ELSE "error", 1>>
        /\ c.restores = 1
        /\ ~isDialogActive
        /\ originalWindowStates = EmptySnapshot

\* A failed operation has been rethrown after the restore elevated a window.
C10_Witness ==
    /\ pc["c1"] = "done"
    /\ call["c1"].path = "plain"
    /\ call["c1"].outcome = <<"error", 1>>
    /\ lastOp.name = "restoreAllWindowsAfterDialog"
    /\ \E k \in WindowKeys : wins[k].exists /\ wins[k].onTop

C11_TimerStep ==
    lastOp'.name = "safetyTimer" =>
        IF isDialogActive
        THEN /\ timerRestoring'
             /\ ~timerPending'
             /\ UNCHANGED <<wins, isDialogActive, originalWindowStates>>
        ELSE UNCHANGED <<wins, isDialogActive, originalWindowStates, timerRestoring,
                         restoreTimeout, pc, call>>

C11_ForceStep ==
    lastOp'.name = "safetyRestore" =>
        /\ timerRestoring /\ ~timerRestoring'
        /\ ~isDialogActive'
        /\ originalWindowStates' = EmptySnapshot
        /\ \A k \in DOMAIN originalWindowStates :
              ~originalWindowStates[k].destroyed =>
                  wins'[k].onTop = (isPinnedOnTop /\ originalWindowStates[k].isVisible)

C12_RestoreCallStep ==
    \A p \in Callers :
        (pc[p] = "op" /\ call[p].path \in {"plain", "granted"} /\ pc'[p] # "op") =>
            ~timerPending'

\* C12: when handleSystemDialog has called restoreAllWindowsAfterDialog after
\* its operation, or emergencyRestore has been called, no safety timer is
\* pending.
C12_NoStaleTimer ==
    /\ [][C12_RestoreCallStep]_vars
    /\ [](lastOp.name = "emergencyRestore" => ~timerPending)

C13_Restored ==
    \A k \in DOMAIN originalWindowStates :
        ~originalWindowStates[k].destroyed =>
            wins[k].onTop = RestoreLevel(isPinnedOnTop, originalWindowStates[k])

\* C13: after emergencyRestore was called on an active session (by a fault
\* handler, with the call that opened the session still in flight or not),
\* every surviving window of the snapshot eventually is at its restore level.
C13_NotStuckLowered ==
    (lastOp.name = "emergencyRestore" /\ lastOp.active) ~> C13_Restored

\* C14: a restore with the pinned preference on, of a snapshot that recorded
\* main visible and elevated, auth hidden and editor visible and not elevated,
\* leaves main elevated, auth normal and editor normal.
C14_ScenarioB ==
    ( /\ lastOp.name = "restoreAllWindowsAfterDialog"
      /\ isPinnedOnTop
      /\ DOMAIN lastOp.snap = WindowKeys
      /\ \A k \in WindowKeys : ~lastOp.snap[k].destroyed
      /\ lastOp.snap["main"].isVisible /\ lastOp.snap["main"].isAlwaysOnTop
      /\ ~lastOp.snap["auth"].isVisible
      /\ lastOp.snap["editor"].isVisible /\ ~lastOp.snap["editor"].isAlwaysOnTop )
    => ( wins["main"].onTop /\ ~wins["auth"].onTop /\ ~wins["editor"].onTop )

C19_ThrowDoesNotAbort ==
    (lastOp.name = "restoreAllWindowsAfterDialog" /\ pc["c1"] = "done") =>
        LET c == call["c1"] IN
        /\ \A k \in DOMAIN lastOp.snap \ c.thrown :
              ~lastOp.snap[k].destroyed =>
                  wins[k].onTop = (isPinnedOnTop /\ lastOp.snap[k].isVisible)
        /\ c.outcome = <<IF c.settled[1] THEN "result" ELSE "error", 1>>
        /\ ~isDialogActive
        /\ originalWindowStates = EmptySnapshot

\* setAlwaysOnTop threw for auth and main has been elevated all the same.
C19_Witness ==
    /\ lastOp.name = "restoreAllWindowsAfterDialog"
    /\ pc["c1"] = "done"
    /\ call["c1"].thrown = {"auth"}
    /\ "main" \in DOMAIN lastOp.snap
    /\ wins["main"].onTop
    /\ call["c1"].outcome = <<"result", 1>>

C20_RestoreStep ==
    lastOp'.name \in {"restoreAllWindowsAfterDialog", "safetyRestore", "emergencyRestore"} =>
        \/ \A k \in DOMAIN originalWindowStates :
              ~originalWindowStates[k].destroyed =>
                  wins'[k].onTop = (isPinnedOnTop /\ originalWindowStates[k].isVisible)
        \/ wins' = wins

C21_GrantedShortcut ==
    \A p \in Callers :
        LET c == call[p] IN
        /\ (c.initialStatus = "granted") = (c.path = "granted")
        /\ c.path = "granted" =>
              /\ c.polls = 0
              /\ c.dialogHandled = "none"
              /\ c.invocations = 1
              /\ pc[p] \notin {"pollWait", "dismissWait"}
              /\ pc[p] = "done" =>
                    /\ Len(c.settled) = 1
                    /\ c.outcome = <<IF c.settled[1] THEN "result" ELSE "error", 1>>
                    /\ c.restores = 1
                    /\ ~isDialogActive
                    /\ originalWindowStates = EmptySnapshot

\* The operation of an already granted call failed and its error is
\* propagated after the restore has elevated a window.
C21_Witness ==
    /\ pc["c1"] = "done"
    /\ call["c1"].path = "granted"
    /\ call["c1"].outcome = <<"error", 1>>
    /\ call["c1"].restores = 1
    /\ lastOp.name = "restoreAllWindowsAfterDialog"
    /\ \E k \in WindowKeys : wins[k].exists /\ wins[k].onTop

C22_LowerStep ==
    (pc["c1"] = "idle" /\ pc'["c1"] # "idle" /\ \A k \in WindowKeys : ~wins[k].exists) =>
        /\ isDialogActive'
        /\ originalWindowStates' = EmptySnapshot
        /\ call'["c1"].opened

\* C22: a lower made when no window exists stores an empty snapshot and opens
\* a session; when the call has settled the session is over, so that the next
\* lower finds no session active and opens its own.
C22_EmptySession ==
    /\ [][C22_LowerStep]_vars
    /\ [](pc["c1"] \in {"idle", "done"} => ~isDialogActive)

\* A permission call made before any window existed has settled after the
\* detector timed out, its session ended by the end of the permission path.
C22_Witness ==
    /\ pc["c1"] = "done"
    /\ call["c1"].path = "perm"
    /\ call["c1"].opened
    /\ call["c1"].size = 0
    /\ call["c1"].restores = 0
    /\ call["c1"].dialogHandled = "false"
    /\ ~isDialogActive

C23_DetectorStep ==
    \A p \in Callers :
        ( /\ call[p].path = "perm"
          /\ call'[p].path = "perm"
          /\ call'[p].dialogHandled = "none"
          /\ <<pc[p], call[p]>> # <<pc'[p], call'[p]>> ) =>
        UNCHANGED <<wins, isDialogActive, originalWindowStates>>

\* C23: from the first invocation of the operation until the detector has
\* returned, no turn of the call (an iteration of the polling loop included)
\* changes a window level, the snapshot or the session flag; the call runs a
\* restore only once the detector has returned.
C23_DetectorFrame ==
    /\ [][C23_DetectorStep]_vars
    /\ [](\A p \in Callers :
            (call[p].path = "perm" /\ (call[p].restores > 0 \/ pc[p] = "restoreWait"))
                => call[p].dialogHandled # "none")

\* The detector has seen the change at its second poll and has not returned
\* yet: the session is active and its formerly elevated window is still lowered.
C23_Witness ==
    /\ pc["c1"] = "dismissWait"
    /\ call["c1"].polls = 2
    /\ isDialogActive
    /\ \E k \in DOMAIN originalWindowStates :
          /\ originalWindowStates[k].isAlwaysOnTop
          /\ ~originalWindowStates[k].destroyed
          /\ ~wins[k].onTop

C24_NoopRestoreStep ==
    \A p \in Callers :
        ( /\ pc[p] = "op"
          /\ call[p].path \in {"plain", "granted"}
          /\ pc'[p] # "op"
          /\ ~isDialogActive ) =>
        /\ UNCHANGED <<wins, originalWindowStates, isDialogActive, restoreTimeout, timerPending>>
        /\ pc'[p] = "done"
        /\ call'[p].restores = 0
        /\ call'[p].outcome = <<IF call'[p].settled[1] THEN "result" ELSE "error", 1>>

\* C24: a restoreAllWindowsAfterDialog called by handleSystemDialog while no
\* session is active changes no window level, leaves the snapshot, the flag
\* and the timer as they were and returns at once, the call settling with the
\* outcome of its operation; and so for every such call.
C24_NoopRestore == [][C24_NoopRestoreStep]_vars

\* A call whose session was ended under it has settled without a restore, the
\* snapshot it had taken still in place.
C24_Witness ==
    /\ pc["c1"] = "done"
    /\ call["c1"].path = "plain"
    /\ call["c1"].opened
    /\ call["c1"].restores = 0
    /\ ~isDialogActive
    /\ originalWindowStates # EmptySnapshot
    /\ lastOp = OtherOp

C25_IdleEmergencyStep ==
    (lastOp'.name = "emergencyRestore" /\ ~isDialogActive) =>
        /\ ~isDialogActive'
        /\ UNCHANGED <<wins, originalWindowStates, pc, call>>

\* C25: emergencyRestore called while no session is active (by a fault
\* handler, by will-quit or over IPC) changes no window level, leaves the flag
\* false and disturbs no call in flight.
C25_IdleEmergency == [][C25_IdleEmergencyStep]_vars

\* emergencyRestore has just run with no session active and an elevated
\* window is as it was.
C25_Witness ==
    /\ lastOp.name = "emergencyRestore"
    /\ ~lastOp.active
    /\ ~isDialogActive
    /\ \E k \in WindowKeys : wins[k].exists /\ wins[k].onTop

\* A turn that runs the loop of lower or of restore.
C30_LoopStep ==
    /\ lastOp'.active = (lastOp'.name # "lowerAllWindowsForDialog")
    /\ lastOp'.name \in {"lowerAllWindowsForDialog", "restoreAllWindowsAfterDialog",
                         "safetyRestore"}

C30_DestroyedStep ==
    C30_LoopStep =>
        /\ \A k \in WindowKeys : ~wins[k].exists => wins'[k] = wins[k]
        /\ lastOp'.name # "lowerAllWindowsForDialog" =>
              \A k \in DOMAIN originalWindowStates :
                  IF originalWindowStates[k].destroyed
                  THEN wins'[k] = wins[k]
                  ELSE wins'[k].onTop = (isPinnedOnTop /\ originalWindowStates[k].isVisible)

\* C30: a turn that runs the loop of lower or of restore changes nothing
\* under a key that holds no window, the restore loop changes nothing under
\* the key of a snapshot window that has been destroyed, whether the key is
\* empty or holds a window created since, and it still gives every surviving
\* window of the snapshot its restore level.
C30_DestroyedUntouched == [][C30_DestroyedStep]_vars

\* A restore loop has run over a snapshot whose visible main window had been
\* closed since the lower, and has elevated the editor.
C30_Witness ==
    /\ lastOp.name = "restoreAllWindowsAfterDialog"
    /\ lastOp.active
    /\ "main" \in DOMAIN lastOp.snap
    /\ lastOp.snap["main"].destroyed
    /\ lastOp.snap["main"].isVisible
    /\ ~wins["main"].exists
    /\ "editor" \in DOMAIN lastOp.snap
    /\ ~lastOp.snap["editor"].destroyed
    /\ wins["editor"].onTop

\* The restore of a call whose wait began before the session that is active
\* now was opened runs its loop.
C33_StaleRestoreStep(p) ==
    /\ pc[p] = "restoreWait"
    /\ pc'[p] = "done"
    /\ call[p].stale
    /\ isDialogActive

\* C33: a restore that passed its active check in a session that has ended
\* leaves the session that is active when its wait finishes as it is: the
\* flag stays set, the snapshot is kept and no window level changes.
C33_NoStaleRestore ==
    [][\A p \in Callers :
          C33_StaleRestoreStep(p) =>
              /\ isDialogActive'
              /\ originalWindowStates' = originalWindowStates
              /\ wins' = wins]_vars

\* C34: whenever no session is active the stored snapshot is empty.
C34_SnapshotClearedWithFlag ==
    ~isDialogActive => originalWindowStates = EmptySnapshot

\* C35: while a session is active no live window is always-on-top.
C35_LoweredWhileActive ==
    isDialogActive => \A k \in WindowKeys : wins[k].exists => ~wins[k].onTop

\* C36: in the state in which a session has just ended, by whichever path,
\* no safety timer is pending.
C36_TimerEndsWithSession ==
    [][(isDialogActive /\ ~isDialogActive') => ~timerPending']_vars

IsCaptured(e) == e.channel \in {"chat-screenshot-captured", "leetcode-screenshot-captured"}

C5_ChunkingInvariance ==
    (sPc = "returned" /\ sEnd \in {"terminal", "exhausted"}) =>
        uiEvents = <<Event(sKind, "start", "")>> \o ProcessRead(sKind, fullBody).events

IsTerminalEvent(e) ==
    e.channel \in {"chat-stream-complete", "screenshot-stream-complete",
                   "chat-error", "screenshot-error"}

\* C6: a streaming request sends at most one terminal event (stream-complete
\* or error, whether carried by the stream or raised by fetch or a read) and
\* sends nothing after it.
C6_OneTerminal ==
    \A i \in 1..Len(uiEvents) :
        IsTerminalEvent(uiEvents[i]) => i = Len(uiEvents)

\* A read failed after a chunk had been sent: the error event is the last one.
C6_Witness ==
    /\ sEnd = "caught"
    /\ Len(uiEvents) = 3
    /\ uiEvents[2] = Event(sKind, "chunk", "hi")
    /\ uiEvents[3].channel = Channel(sKind, "error")
    /\ body # <<>>

\* C7: a request whose reader reported done before a complete or error line
\* was processed has sent an error event.
C7_AbnormalEndIsError ==
    sEnd = "exhausted" =>
        \E i \in 1..Len(uiEvents) : uiEvents[i].channel = Channel(sKind, "error")

\* The part of the response body the reads have delivered so far.
Delivered == SubSeq(fullBody, 1, Len(fullBody) - Len(body))

\* C16: the reader of the response body is held only while the loop is
\* reading, and is released whichever way the function has left the loop:
\* source exhausted, terminal line processed, or a read that threw.
C16_ReaderReleased ==
    /\ readerLocked => sPc = "reading"
    /\ sPc = "returned" => ~readerLocked

\* The function returned on a terminal line with part of the body unread, and
\* the reader it had acquired is released.
C16_Witness ==
    /\ sEnd = "terminal"
    /\ body # <<>>
    /\ uiEvents[1] = Event(sKind, "start", "")
    /\ ~readerLocked

IsMalformed(line) ==
    StartsWithData(line) /\ JSONParse(Slice6(line)).field = "SyntaxError"

NotMalformed(line) == ~IsMalformed(line)

\* C17: with reads that end at line ends, the events sent are those of the
\* delivered lines with every data line of invalid JSON taken out: such a line
\* sends nothing and stops nothing.
C17_MalformedSkipped ==
    (sPc \in {"reading", "returned"} /\ sEnd # "caught" /\ wholeReads) =>
        uiEvents = <<Event(sKind, "start", "")>> \o
                   ProcessLines(sKind, SelectSeq(Split(Delivered), NotMalformed), 1).events

\* A data line of invalid JSON came first and the chunk of the line after it
\* has been sent.
C17_Witness ==
    /\ sPc = "returned"
    /\ wholeReads
    /\ fullBody = DataMarker \o <<"{\"chu", NL>> \o DataMarker \o ChunkHi \o <<NL>>
    /\ uiEvents = <<Event(sKind, "start", ""), Event(sKind, "chunk", "hi")>>

\* The values sent on the chunk channel, in order.
RECURSIVE ChunkValues(_, _)
ChunkValues(events, i) ==
    IF i > Len(events) THEN <<>>
    ELSE IF events[i].channel \in {"chat-stream-chunk", "screenshot-stream-chunk"}
         THEN <<events[i].value>> \o ChunkValues(events, i + 1)
         ELSE ChunkValues(events, i + 1)

\* The non-empty chunk payloads of the well-formed data lines before the first
\* complete or error line.
RECURSIVE ExpectedChunks(_, _)
ExpectedChunks(lines, i) ==
    IF i > Len(lines) THEN <<>>
    ELSE IF ~StartsWithData(lines[i]) THEN ExpectedChunks(lines, i + 1)
    ELSE LET d == JSONParse(Slice6(lines[i])) IN
         IF d.field \in {"complete", "error"} THEN <<>>
         ELSE IF d.field = "chunk" /\ d.value # ""
              THEN <<d.value>> \o ExpectedChunks(lines, i + 1)
              ELSE ExpectedChunks(lines, i + 1)

\* C18: with reads that end at line ends, the chunk values sent so far are, in
\* order and each once, the non-empty chunk payloads of the well-formed data
\* lines delivered before the first terminal line.
C18_ChunksInOrder ==
    (sPc \in {"reading", "returned"} /\ wholeReads) =>
        ChunkValues(uiEvents, 1) = ExpectedChunks(Split(Delivered), 1)

\* Two different chunks were sent in the order of their lines, over two reads.
C18_Witness ==
    /\ sPc = "returned"
    /\ wholeReads
    /\ fullBody = DataMarker \o ChunkYo \o <<NL>> \o DataMarker \o ChunkHi \o <<NL>>
    /\ ChunkValues(uiEvents, 1) = <<"yo", "hi">>

\* The chunk payloads, empty ones included, of the well-formed data lines
\* before the first complete or error line.
RECURSIVE AllChunks(_, _)
AllChunks(lines, i) ==
    IF i > Len(lines) THEN <<>>
    ELSE IF ~StartsWithData(lines[i]) THEN AllChunks(lines, i + 1)
    ELSE LET d == JSONParse(Slice6(lines[i])) IN
         IF d.field \in {"complete", "error"} THEN <<>>
         ELSE IF d.field = "chunk"
              THEN <<d.value>> \o AllChunks(lines, i + 1)
              ELSE AllChunks(lines, i + 1)

\* C32: with reads that end at line ends, every well-formed data line with a
\* chunk field delivered before the first terminal line has sent one chunk
\* event with its value, the empty string included.
C32_EveryChunkSent ==
    (sPc \in {"reading", "returned"} /\ wholeReads) =>
        ChunkValues(uiEvents, 1) = AllChunks(Split(Delivered), 1)

IsStartEvent(e) == e.channel \in {"chat-stream-start", "screenshot-stream-start"}

HasTerminal(lines) ==
    \E i \in 1..Len(lines) : LineAction(lines[i]) \in {"complete", "error"}

\* C39: with reads that end at line ends, once a complete or error line has
\* been delivered and parsed the request function has returned: it reads no
\* more and processes no later line.
C39_StopsAtTerminal ==
    (sPc \in {"reading", "returned"} /\ wholeReads /\ HasTerminal(Split(Delivered))) =>
        sPc = "returned"

IsChunkEvent(e) == e.channel \in {"chat-stream-chunk", "screenshot-stream-chunk"}

\* C37: every chunk event sent after the stream-start of one invocation and
\* before that invocation's terminal event belongs to that invocation.
C37_NoInterleaving ==
    \A i, j \in 1..Len(channelLog) :
        (/\ i < j
         /\ IsStartEvent(channelLog[i])
         /\ IsChunkEvent(channelLog[j])
         /\ channelLog[j].req # channelLog[i].req) =>
            \E m \in (i + 1)..(j - 1) :
                /\ channelLog[m].req = channelLog[i].req
                /\ IsTerminalEvent(channelLog[m])

(* ---------------------------------------------------------------------- *)
(* Claims about the updater                                                *)
(* ---------------------------------------------------------------------- *)

\* major.minor.patch compared as a tuple of numbers; the 'v' and the
\* pre-release suffix play no part.
Compare(a, b) ==
    IF a.major # b.major THEN (IF a.major > b.major THEN "newer" ELSE "older")
    ELSE IF a.minor # b.minor THEN (IF a.minor > b.minor THEN "newer" ELSE "older")
    ELSE IF a.patch # b.patch THEN (IF a.patch > b.patch THEN "newer" ELSE "older")
    ELSE "equal"

\* The update-available handler announces a download.
C26_AnnounceStep ==
    /\ uPhase = "checking"
    /\ uPhase' = "downloading"
    /\ notes' = Append(notes, "download-started")

\* C26: an update is announced (download-started) only for a candidate whose
\* major.minor.patch, compared as numbers with the pre-release suffix
\* ignored, is newer than that of the running version.
C26_AnnouncedOnlyNewer ==
    [][C26_AnnounceStep => Compare(offered', currentVersion) = "newer"]_vars

\* C27: after update-available has reported the running version, no download
\* is in progress or finished and no restart is scheduled, until the next
\* check.
C27_EqualNeverDownloads ==
    skipped => /\ uPhase \notin {"downloading", "downloaded"}
               /\ ~restartPending
               /\ ~restarted

\* The update-downloaded handler has run.
C28_DownloadedStep == uPhase = "downloading" /\ uPhase' = "downloaded"

C29_NoRestartAfterError == failed => ~restarted

====
